---- MODULE Spec2Model ----
(***************************************************************************)
(* Model of country_automation_dashboard.py: the loading phase of main     *)
(* (load_country_data, the upload branch, load_uploaded_data), the         *)
(* occupation search, the statistics extraction with the three risk        *)
(* labels, and the country overview.                                       *)
(*                                                                         *)
(* Numbers are probabilities in thousandths (0.5 is 500, 0.2 is 200).      *)
(* A spreadsheet cell is a number, a missing value (NaN) or a text.        *)
(* Texts are sequences of one-character strings.                           *)
(***************************************************************************)
EXTENDS Integers, Sequences, FiniteSets, TLC

VARIABLES
    pc,                 \* position of the running script
    fs,                 \* the directory: country code -> state of its file
    i,                  \* load_country_data: index of the next COUNTRIES item
    country_data,       \* the dict country code -> table
    missing_files,      \* load_country_data: list of filenames
    uploaded_files,     \* what st.file_uploader returned (a list of files)
    j,                  \* load_uploaded_data: index of the next uploaded file
    uploaded_data,      \* load_uploaded_data: its country_data
    ui,                 \* the st.warning/info/success/error calls, in order
    session_state,      \* st.session_state: a function on the keys set so far
    search_term,        \* search_occupations: its search_term argument
    occupation_title,   \* the occupation a tab works on
    out                 \* what the function or tab under study produced

vars == <<pc, fs, i, country_data, missing_files, uploaded_files, j,
          uploaded_data, ui, session_state, search_term, occupation_title, out>>

----------------------------------------------------------------------------
(* Bounds of the model *)

MaxUploads == 2
MaxRows == 2
MaxStrLen == 2
MaxTermLen == 2

(* Program constants *)

NumYears == 91
FirstYear == 2017
IdColumns == 2
Idx2024 == 7
Idx2030 == 13
Idx2050 == 33
Col2024 == 9
Col2050 == 35
HighThreshold == 500
MediumThreshold == 200

----------------------------------------------------------------------------
(* Cells and tables *)

Num(n) == [k |-> "num", n |-> n, s |-> <<>>]
NaN == [k |-> "nan", n |-> 0, s |-> <<>>]
Str(s) == [k |-> "str", n |-> 0, s |-> s]

None == [k |-> "none", n |-> 0, s |-> <<>>]
Zero == Num(0)

\* a DataFrame: the number of its columns and its rows, each a sequence of
\* cells as long as the number of columns
DataFrame(columns, rows) == [columns |-> columns, rows |-> rows]

\* a Python dict: its keys in insertion order and the value at each key
EmptyDict == [keys |-> <<>>, at |-> [c \in {} |-> None]]

Keys(d) == {d.keys[n] : n \in 1..Len(d.keys)}

\* d[key] = value
Put(d, key, value) ==
    [keys |-> IF key \in Keys(d) THEN d.keys ELSE Append(d.keys, key),
     at |-> [c \in Keys(d) \cup {key} |-> IF c = key THEN value ELSE d.at[c]]]

\* d.update(e)
RECURSIVE UpdateFrom(_, _, _)
UpdateFrom(d, e, n) ==
    IF n > Len(e.keys) THEN d
    ELSE UpdateFrom(Put(d, e.keys[n], e.at[e.keys[n]]), e, n + 1)

\* an update that keeps the value d already has at a key
update_keeping(d, e) == UpdateFrom(e, d, 1)

Update(d, e) == UpdateFrom(d, e, 1)

----------------------------------------------------------------------------
(* COUNTRIES *)

CountryOrder == <<"USA", "Germany", "China", "Algeria", "MENA", "Mali">>

CountryCodes == {CountryOrder[n] : n \in 1..Len(CountryOrder)}

COUNTRIES ==
    [c \in CountryCodes |->
        [file |-> CASE c = "USA" -> "USA_corrected.xlsx"
                    [] c = "Germany" -> "Germany_corrected.xlsx"
                    [] c = "China" -> "China_corrected.xlsx"
                    [] c = "Algeria" -> "Algeria_corrected.xlsx"
                    [] c = "MENA" -> "Mena_corrected.xlsx"
                    [] c = "Mali" -> "Mali_corrected.xlsx"]]

----------------------------------------------------------------------------
(* The environment of a run: the files on disk and the files uploaded *)

\* a file of the directory is absent, a readable workbook, or one pd.read_excel
\* raises on
FileStates == {"absent", "ok", "corrupt"}

\* what pd.read_excel returns for the workbook on disk and for an uploaded one
DiskSheet == DataFrame(2, << <<Str(<<"1">>), Str(<<"d">>)>> >>)
UploadSheet == DataFrame(2, << <<Str(<<"1">>), Str(<<"u">>)>> >>)

\* names an uploaded file can have: two configured ones, one that differs from
\* a configured one in case only, one unrelated
UploadNames ==
    {"USA_corrected.xlsx", "Mali_corrected.xlsx", "usa_corrected.xlsx", "data.xlsx"}

UploadedFile == [name : UploadNames, readable : BOOLEAN]

\* st.session_state of a new session: no key is set
NoSessionState == [key \in {} |-> <<>>]

SeqsUpTo(S, n) == UNION {[1..m -> S] : m \in 0..n}

----------------------------------------------------------------------------
(* load_country_data *)

\* the body of the loop for one COUNTRIES item: the try block with its except
\* clause.  st is the state of the country's file on disk.
load_country_data_body_skip(cd, mf, errs, code, st) ==
    IF st = "ok"
    THEN [country_data |-> Put(cd, code, DiskSheet), missing_files |-> mf, ui |-> errs]
    ELSE IF st = "absent"
    THEN [country_data |-> cd,
          missing_files |-> Append(mf, COUNTRIES[code].file), ui |-> errs]
    ELSE [country_data |-> cd, missing_files |-> mf,
          ui |-> Append(errs, "error_loading")]

load_country_data_body(cd, mf, errs, code, st) ==
    IF st = "ok"
    THEN \* os.path.exists and pd.read_excel succeeds
         [country_data |-> Put(cd, code, DiskSheet), missing_files |-> mf, ui |-> errs]
    ELSE IF st = "absent"
    THEN [country_data |-> cd,
          missing_files |-> Append(mf, COUNTRIES[code].file), ui |-> errs]
    ELSE \* pd.read_excel raised: except Exception
         [country_data |-> cd,
          missing_files |-> Append(mf, COUNTRIES[code].file),
          ui |-> Append(errs, "error_loading")]

load_country_data_iter ==
    /\ pc = "load_country_data"
    /\ i <= Len(CountryOrder)
    /\ LET code == CountryOrder[i]
           r == load_country_data_body(country_data, missing_files, ui, code, fs[code])
       IN /\ country_data' = r.country_data
          /\ missing_files' = r.missing_files
          /\ ui' = r.ui
    /\ i' = i + 1
    /\ UNCHANGED <<pc, fs, uploaded_files, j, uploaded_data, session_state,
                   search_term, occupation_title, out>>

load_country_data_return ==
    /\ pc = "load_country_data"
    /\ i > Len(CountryOrder)
    /\ pc' = "main"
    /\ UNCHANGED <<fs, i, country_data, missing_files, uploaded_files, j,
                   uploaded_data, ui, session_state, search_term,
                   occupation_title, out>>

----------------------------------------------------------------------------
(* load_uploaded_data *)

\* the inner loop: the code of the first COUNTRIES item whose file is the
\* filename, or None
RECURSIVE MatchFrom(_, _)
MatchFrom(filename, n) ==
    IF n > Len(CountryOrder) THEN "None"
    ELSE IF COUNTRIES[CountryOrder[n]].file = filename THEN CountryOrder[n]
    ELSE MatchFrom(filename, n + 1)

\* a match that ignores the case of the filename
FoldName(filename) ==
    IF filename = "usa_corrected.xlsx" THEN "USA_corrected.xlsx" ELSE filename

match_country_folded(filename) == MatchFrom(FoldName(filename), 1)

match_country(filename) == MatchFrom(filename, 1)

\* the body of the outer loop for one uploaded file
load_uploaded_data_body(ud, errs, file) ==
    LET country_code == match_country(file.name)
    IN IF country_code # "None"
       THEN IF file.readable
            THEN [country_data |-> Put(ud, country_code, UploadSheet), ui |-> errs]
            ELSE [country_data |-> ud, ui |-> Append(errs, "error_loading")]
       ELSE [country_data |-> ud, ui |-> errs]

load_uploaded_data_iter ==
    /\ pc = "load_uploaded_data"
    /\ j <= Len(uploaded_files)
    /\ LET r == load_uploaded_data_body(uploaded_data, ui, uploaded_files[j])
       IN /\ uploaded_data' = r.country_data
          /\ ui' = r.ui
    /\ j' = j + 1
    /\ UNCHANGED <<pc, fs, i, country_data, missing_files, uploaded_files,
                   session_state, search_term, occupation_title, out>>

----------------------------------------------------------------------------
(* main: from the start of the script to the session state *)

\* if missing_files: the warning and the uploader; else the success message
main_missing_files ==
    /\ pc = "main"
    /\ IF missing_files # <<>>
       THEN /\ ui' = ui \o <<"warning_not_found", "info_upload_below">>
            /\ pc' = "file_uploader"
       ELSE /\ ui' = Append(ui, "success_loaded")
            /\ pc' = "session_state"
    /\ UNCHANGED <<fs, i, country_data, missing_files, uploaded_files, j,
                   uploaded_data, session_state, search_term, occupation_title, out>>

\* st.file_uploader returns the files the user supplied; if uploaded_files
main_file_uploader ==
    /\ pc = "file_uploader"
    /\ \E files \in SeqsUpTo(UploadedFile, MaxUploads) :
        /\ uploaded_files' = files
        /\ IF files # <<>>
           THEN /\ pc' = "load_uploaded_data"
                /\ j' = 1
                /\ uploaded_data' = EmptyDict
                /\ ui' = ui
           ELSE /\ pc' = "stopped"
                /\ ui' = Append(ui, "info_please_upload")
                /\ UNCHANGED <<j, uploaded_data>>
    /\ UNCHANGED <<fs, i, country_data, missing_files, session_state,
                   search_term, occupation_title, out>>

\* main_update without the else branch: the script goes on whatever was loaded
main_update_no_stop ==
    /\ pc = "load_uploaded_data"
    /\ j > Len(uploaded_files)
    /\ country_data' = Update(country_data, uploaded_data)
    /\ ui' = Append(ui, "success_loaded")
    /\ pc' = "session_state"
    /\ UNCHANGED <<fs, i, missing_files, uploaded_files, j, uploaded_data,
                   session_state, search_term, occupation_title, out>>

\* load_uploaded_data returns; country_data.update(uploaded_data);
\* if country_data: success, else error and st.stop()
main_update ==
    /\ pc = "load_uploaded_data"
    /\ j > Len(uploaded_files)
    /\ country_data' = Update(country_data, uploaded_data)
    /\ IF country_data'.keys # <<>>
       THEN /\ ui' = Append(ui, "success_loaded")
            /\ pc' = "session_state"
       ELSE /\ ui' = Append(ui, "error_could_not_load")
            /\ pc' = "stopped"
    /\ UNCHANGED <<fs, i, missing_files, uploaded_files, j, uploaded_data,
                   session_state, search_term, occupation_title, out>>

\* Initialize session state, the first statements of the rendering
main_session_state ==
    /\ pc = "session_state"
    /\ session_state' =
         [key \in (DOMAIN session_state) \cup {"selected_occupations", "selected_countries"} |->
            IF key \in DOMAIN session_state THEN session_state[key]
            ELSE IF key = "selected_occupations" THEN <<>>
            ELSE country_data.keys]
    /\ pc' = "sidebar"
    /\ UNCHANGED <<fs, i, country_data, missing_files, uploaded_files, j,
                   uploaded_data, ui, search_term, occupation_title, out>>

InitLoad ==
    /\ pc = "load_country_data"
    /\ fs \in [CountryCodes -> FileStates]
    /\ i = 1
    /\ country_data = EmptyDict
    /\ missing_files = <<>>
    /\ uploaded_files = <<>>
    /\ j = 1
    /\ uploaded_data = EmptyDict
    /\ ui = <<>>
    /\ session_state = NoSessionState
    /\ search_term = <<>>
    /\ occupation_title = <<>>
    /\ out = None

NextLoad ==
    \/ load_country_data_iter
    \/ load_country_data_return
    \/ main_missing_files
    \/ main_file_uploader
    \/ load_uploaded_data_iter
    \/ main_update
    \/ main_session_state

SpecLoad == InitLoad /\ [][NextLoad]_vars

----------------------------------------------------------------------------
(* search_occupations *)

\* the characters of the texts in a table and of a search term; "." is the
\* one character of these that a regular expression does not read literally
CellChars == {"a", "B"}
TermChars == {"a", "b", "B", "."}

Strings(chars, lo, hi) == UNION {[1..m -> chars] : m \in lo..hi}

\* str.lower()
LowerChar(ch) == IF ch = "B" THEN "b" ELSE ch

Lower(text) == [n \in 1..Len(text) |-> LowerChar(text[n])]

\* astype(str) of a cell of an identifier column (a text, or a missing value)
astype_str(cell) == IF cell.k = "nan" THEN <<"n", "a", "n">> ELSE cell.s

\* the text contains pat read as a plain string (Python's `pat in text`)
contains_literal(text, pat) ==
    \E o \in 0..(Len(text) - Len(pat)) :
        \A n \in 1..Len(pat) : pat[n] = text[o + n]

\* Series.str.contains(pat): regex=True is the default, so pat is a regular
\* expression and re.search decides; over TermChars a "." matches any character
\* and every other character matches itself
str_contains(text, pat) ==
    \E o \in 0..(Len(text) - Len(pat)) :
        \A n \in 1..Len(pat) : pat[n] = "." \/ pat[n] = text[o + n]

search_occupations(data, term) ==
    IF term = <<>> THEN data
    ELSE LET lowered == Lower(term)
             soc_matches(row) == str_contains(Lower(astype_str(row[1])), lowered)
             title_matches(row) == str_contains(Lower(astype_str(row[2])), lowered)
             keep(row) == soc_matches(row) \/ title_matches(row)
         IN DataFrame(data.columns, SelectSeq(data.rows, keep))

\* tab3: the table of the browsed country filtered by browse_filter
tab3_filter ==
    /\ pc = "tab3_filter"
    /\ out' = search_occupations(country_data.at["USA"], search_term)
    /\ pc' = "tab3_filtered"
    /\ UNCHANGED <<fs, i, country_data, missing_files, uploaded_files, j,
                   uploaded_data, ui, session_state, search_term, occupation_title>>

IdTexts == Strings(CellChars, 1, MaxStrLen)

IdRows == {<<Str(code), Str(title)>> : code \in IdTexts, title \in IdTexts}

InitSearch ==
    /\ pc = "tab3_filter"
    /\ fs = [c \in CountryCodes |-> "ok"]
    /\ i = 1
    /\ \E rows \in SeqsUpTo(IdRows, MaxRows) :
          country_data = Put(EmptyDict, "USA", DataFrame(2, rows))
    /\ missing_files = <<>>
    /\ uploaded_files = <<>>
    /\ j = 1
    /\ uploaded_data = EmptyDict
    /\ ui = <<>>
    /\ session_state = NoSessionState
    /\ search_term \in Strings(TermChars, 0, MaxTermLen)
    /\ occupation_title = <<>>
    /\ out = None

NextSearch == tab3_filter

SpecSearch == InitSearch /\ [][NextSearch]_vars

\* C8: the result of search_occupations holds, in the order of the table,
\* exactly the rows whose code or title contains the term as a literal
\* substring, case ignored; the empty term gives the table itself.
C8_SearchIsLiteralSubstring ==
    pc = "tab3_filtered" =>
        LET data == country_data.at["USA"]
            lowered == Lower(search_term)
            hit(row) == \/ contains_literal(Lower(astype_str(row[1])), lowered)
                        \/ contains_literal(Lower(astype_str(row[2])), lowered)
        IN out = DataFrame(data.columns, SelectSeq(data.rows, hit))

----------------------------------------------------------------------------
(* calculate_country_occupation_stats and the three tabs that label a risk *)

\* what an expression evaluates to when it raises
IndexError == [k |-> "IndexError", n |-> 0, s |-> <<>>]

Min(a, b) == IF a < b THEN a ELSE b

\* seq[idx] of Python, idx counted from 0, a negative idx from the end
getitem(seq, idx) ==
    LET real == IF idx < 0 THEN idx + Len(seq) ELSE idx
    IN IF real >= 0 /\ real < Len(seq) THEN seq[real + 1] ELSE IndexError

\* probs taken from the title column on: one identifier column skipped
probs_of_from_title(row) == SubSeq(row, IdColumns, Len(row))

\* row.iloc[2:].values: the cells after the two identifier columns
probs_of(row) == SubSeq(row, IdColumns + 1, Len(row))

\* the rows whose title is the requested one up to the case of its letters
rows_titled_folded(df, title) ==
    SelectSeq(df.rows,
        LAMBDA row : row[2].k = "str" /\ Lower(row[2].s) = Lower(title))

\* df[df.iloc[:, 1] == title]: the rows whose title cell is the text title
rows_titled(df, title) == SelectSeq(df.rows, LAMBDA row : row[2] = Str(title))

\* years[:len(probs)] of years = list(range(2017, 2108))
years_upto(n) == [y \in 1..Min(n, NumYears) |-> FirstYear + y - 1]

\* the guards of the extraction taken with >= instead of >
point_value_inclusive(probs, idx) ==
    IF Len(probs) >= idx THEN getitem(probs, idx) ELSE Zero

\* probs[idx] if len(probs) > idx else 0
point_value(probs, idx) ==
    IF Len(probs) > idx THEN getitem(probs, idx) ELSE Zero

\* probs[-1] if len(probs) > 0 else 0
final_value(probs) ==
    IF Len(probs) > 0 THEN getitem(probs, -1) ELSE Zero

\* the entry of stats for one matching row
occupation_stats(probs) ==
    [probabilities |-> probs,
     years |-> years_upto(Len(probs)),
     current_2024 |-> point_value(probs, Idx2024),
     outlook_2030 |-> point_value(probs, Idx2030),
     midterm_2050 |-> point_value(probs, Idx2050),
     final_2107 |-> final_value(probs)]

RECURSIVE stats_from(_, _, _, _)
stats_from(title, cd, n, stats) ==
    IF n > Len(cd.keys) THEN stats
    ELSE LET country_code == cd.keys[n]
             occ_row == rows_titled(cd.at[country_code], title)
         IN stats_from(title, cd, n + 1,
                IF occ_row # <<>>
                THEN Put(stats, country_code, occupation_stats(probs_of(occ_row[1])))
                ELSE stats)

calculate_country_occupation_stats(title, cd) == stats_from(title, cd, 1, EmptyDict)

\* value > threshold of Python: a number compares, NaN compares False, a text
\* raises TypeError
greater(cell, threshold) ==
    CASE cell.k = "num" -> IF cell.n > threshold THEN "True" ELSE "False"
      [] cell.k = "nan" -> "False"
      [] OTHER -> "TypeError"

\* f"{value:.3f}", f"{value:.4f}": the number with that many decimals, "nan"
\* for NaN, ValueError for a text
format_f(cell, decimals) ==
    CASE cell.k = "num" -> [k |-> "text", n |-> cell.n, decimals |-> decimals]
      [] cell.k = "nan" -> [k |-> "text_nan", n |-> 0, decimals |-> decimals]
      [] OTHER -> [k |-> "ValueError", n |-> 0, decimals |-> decimals]

\* the tab1 label with >= 0.5 for High
risk_level_tab1_inclusive(current) ==
    LET high == greater(current, HighThreshold - 1)
        medium == greater(current, MediumThreshold)
    IN IF high = "TypeError" THEN "TypeError"
       ELSE IF high = "True" THEN "High"
       ELSE IF medium = "True" THEN "Medium" ELSE "Low"

\* tab1, Risk Assessment by Country
risk_level_tab1(current) ==
    LET high == greater(current, HighThreshold)
        medium == greater(current, MediumThreshold)
    IN IF high = "TypeError" THEN "TypeError"
       ELSE IF high = "True" THEN "High"
       ELSE IF medium = "True" THEN "Medium" ELSE "Low"

\* tab2, Occupation Comparison Table
risk_level_tab2(current) ==
    LET high == greater(current, HighThreshold)
        medium == greater(current, MediumThreshold)
    IN IF high = "TypeError" THEN "TypeError"
       ELSE IF high = "True" THEN "High"
       ELSE IF medium = "True" THEN "Medium" ELSE "Low"

\* tab3, the browse cards
risk_level_tab3(current) ==
    LET high == greater(current, HighThreshold)
        medium == greater(current, MediumThreshold)
    IN IF high = "TypeError" THEN "TypeError"
       ELSE IF high = "True" THEN "High Risk"
       ELSE IF medium = "True" THEN "Medium Risk" ELSE "Low Risk"

\* the first exception of a sequence of evaluations, "None" when none raised
RECURSIVE first_raised(_, _)
first_raised(results, n) ==
    IF n > Len(results) THEN "None"
    ELSE IF results[n] # "None" THEN results[n]
    ELSE first_raised(results, n + 1)

Raised(value) == IF value.k \in {"ValueError", "IndexError"} THEN value.k ELSE "None"

\* tab1: the metrics of the selected occupation for each selected country,
\* then the risk table
tab1_analysis ==
    /\ pc = "tabs"
    /\ LET stats == calculate_country_occupation_stats(occupation_title, country_data)
           shown == SelectSeq(session_state["selected_countries"],
                              LAMBDA c : c \in Keys(stats))
           metrics == [n \in 1..Len(shown) |->
                         LET country_stats == stats.at[shown[n]]
                         IN <<format_f(country_stats.current_2024, 3),
                              format_f(country_stats.outlook_2030, 3),
                              format_f(country_stats.midterm_2050, 3)>>]
           metrics_raised ==
               first_raised([n \in 1..Len(shown) |->
                   first_raised([m \in 1..3 |-> Raised(metrics[n][m])], 1)], 1)
           risk_data == [n \in 1..Len(shown) |->
                           LET country_stats == stats.at[shown[n]]
                           IN [Country |-> shown[n],
                               CurrentRisk |-> format_f(country_stats.current_2024, 3),
                               RiskLevel |-> risk_level_tab1(country_stats.current_2024)]]
           risk_raised ==
               first_raised([n \in 1..Len(shown) |->
                   IF risk_data[n].RiskLevel = "TypeError" THEN "TypeError"
                   ELSE Raised(risk_data[n].CurrentRisk)], 1)
       IN out' = [tab |-> "tab1",
                  stats |-> stats,
                  raised |-> IF metrics_raised # "None" THEN metrics_raised ELSE risk_raised,
                  table |-> IF metrics_raised # "None" THEN <<>> ELSE risk_data]
    /\ pc' = "tab1"
    /\ UNCHANGED <<fs, i, country_data, missing_files, uploaded_files, j,
                   uploaded_data, ui, session_state, search_term, occupation_title>>

\* one entry of comparison_data (tab2) from the first row titled occ
comparison_row(df, occ) ==
    LET probs == probs_of(rows_titled(df, occ)[1])
        current_2024 == point_value(probs, Idx2024)
        outlook_2030 == point_value(probs, Idx2030)
        midterm_2050 == point_value(probs, Idx2050)
    IN [Occupation |-> occ,
        current_2024 |-> current_2024,
        outlook_2030 |-> outlook_2030,
        midterm_2050 |-> midterm_2050,
        Current2024 |-> format_f(current_2024, 4),
        Outlook2030 |-> format_f(outlook_2030, 4),
        Projection2050 |-> format_f(midterm_2050, 4),
        RiskLevel |-> risk_level_tab2(current_2024)]

row_raised(r, formatted) ==
    first_raised([m \in 1..Len(formatted) |-> Raised(formatted[m])]
                    \o <<IF r.RiskLevel = "TypeError" THEN "TypeError" ELSE "None">>, 1)

\* tab2: the comparison table of the selected occupations of one country
tab2_comparison ==
    /\ pc = "tabs"
    /\ LET df == country_data.at["USA"]
           selected == SelectSeq(<<occupation_title>>,
                                 LAMBDA occ : rows_titled(df, occ) # <<>>)
           comparison_data == [n \in 1..Len(selected) |-> comparison_row(df, selected[n])]
       IN out' = [tab |-> "tab2",
                  raised |-> first_raised([n \in 1..Len(selected) |->
                                 LET r == comparison_data[n]
                                 IN row_raised(r, <<r.Current2024, r.Outlook2030,
                                                    r.Projection2050>>)], 1),
                  table |-> comparison_data]
    /\ pc' = "tab2"
    /\ UNCHANGED <<fs, i, country_data, missing_files, uploaded_files, j,
                   uploaded_data, ui, session_state, search_term, occupation_title>>

\* one occupation card (tab3)
browse_card(row) ==
    LET probs == probs_of(row)
        current_2024 == point_value(probs, Idx2024)
        prob_2050 == point_value(probs, Idx2050)
    IN [Title |-> row[2],
        SOC |-> row[1],
        current_2024 |-> current_2024,
        prob_2050 |-> prob_2050,
        RiskLevel |-> risk_level_tab3(current_2024),
        Risk2024 |-> format_f(current_2024, 4),
        Risk2050 |-> format_f(prob_2050, 4)]

\* tab3: one card for each row of the browsed table
tab3_cards ==
    /\ pc = "tabs"
    /\ LET df == country_data.at["USA"]
           cards == [n \in 1..Len(df.rows) |-> browse_card(df.rows[n])]
       IN out' = [tab |-> "tab3",
                  raised |-> first_raised([n \in 1..Len(cards) |->
                                 row_raised(cards[n], <<cards[n].Risk2024,
                                                        cards[n].Risk2050>>)], 1),
                  table |-> cards]
    /\ pc' = "tab3"
    /\ UNCHANGED <<fs, i, country_data, missing_files, uploaded_files, j,
                   uploaded_data, ui, session_state, search_term, occupation_title>>

\* the cells a probability column can hold: numbers on both sides of the two
\* thresholds, a missing value, a text
ProbCells == {Num(0), Num(MediumThreshold), Num(MediumThreshold + 1),
              Num(HighThreshold), Num(HighThreshold + 1), NaN, Str(<<"a">>)}

\* rows of len probability cells, all 0 but one
SpikeRows(code, title, len) ==
    {<<Str(code), Str(title)>> \o [n \in 1..len |-> IF n = at THEN cell ELSE Zero] :
        at \in 1..len, cell \in ProbCells}
    \cup {<<Str(code), Str(title)>> \o [n \in 1..len |-> Zero]}

InitStats ==
    /\ pc = "tabs"
    /\ fs = [c \in CountryCodes |-> "ok"]
    /\ i = 1
    /\ \E len \in 0..NumYears :
         \E row \in SpikeRows(<<"B">>, <<"a">>, len) :
            country_data = Put(EmptyDict, "USA", DataFrame(IdColumns + len, <<row>>))
    /\ missing_files = <<>>
    /\ uploaded_files = <<>>
    /\ j = 1
    /\ uploaded_data = EmptyDict
    /\ ui = <<>>
    /\ session_state = [key \in {"selected_occupations", "selected_countries"} |->
                          IF key = "selected_countries" THEN <<"USA">> ELSE <<>>]
    /\ search_term = <<>>
    /\ occupation_title = <<"a">>
    /\ out = None

NextStats ==
    \/ tab1_analysis
    \/ tab2_comparison
    \/ tab3_cards

SpecStats == InitStats /\ [][NextStats]_vars

----------------------------------------------------------------------------
(* create_country_overview_metrics *)

\* df.iloc[:, col]: the cells of the column at offset col, from 0
column(df, col) == [r \in 1..Len(df.rows) |-> df.rows[r][col + 1]]

RECURSIVE sum_of(_, _)
sum_of(cells, n) ==
    IF n > Len(cells) THEN 0
    ELSE (IF cells[n].k = "num" THEN cells[n].n ELSE 0) + sum_of(cells, n + 1)

\* Series.mean(): the mean of the values that are not missing, as the fraction
\* sum / count; NaN when there is none; TypeError when a cell is a text
mean(cells) ==
    LET present == SelectSeq(cells, LAMBDA cell : cell.k # "nan")
    IN IF \E n \in 1..Len(cells) : cells[n].k = "str"
       THEN [k |-> "TypeError", sum |-> 0, count |-> 0]
       ELSE IF present = <<>>
       THEN [k |-> "nan", sum |-> 0, count |-> 0]
       ELSE [k |-> "num", sum |-> sum_of(present, 1), count |-> Len(present)]

\* (Series > threshold).sum(): the number of cells above the threshold;
\* TypeError when a cell is a text
count_greater(cells, threshold) ==
    IF \E n \in 1..Len(cells) : greater(cells[n], threshold) = "TypeError"
    THEN [k |-> "TypeError", n |-> 0]
    ELSE [k |-> "num",
          n |-> Len(SelectSeq(cells, LAMBDA cell : greater(cell, threshold) = "True"))]

\* the literal 0 of the else branches
ZeroMean == [k |-> "num", sum |-> 0, count |-> 1]
ZeroCount == [k |-> "num", n |-> 0]

\* the entry of overview_stats for one table; percentages are fractions
\* num / den
country_overview(df) ==
    LET total_occupations == Len(df.rows)
        avg_2024 == IF df.columns > Col2024 THEN mean(column(df, Col2024)) ELSE ZeroMean
        high_risk_2050 == IF df.columns > Col2050
                          THEN count_greater(column(df, Col2050), HighThreshold)
                          ELSE ZeroCount
    IN [raised |-> IF avg_2024.k = "TypeError" \/ high_risk_2050.k = "TypeError"
                   THEN "TypeError" ELSE "None",
        total_occupations |-> total_occupations,
        avg_automation_2024 |-> avg_2024,
        high_risk_occupations_2050 |-> high_risk_2050.n,
        high_risk_percentage |->
            IF total_occupations > 0
            THEN [num |-> high_risk_2050.n * 100, den |-> total_occupations]
            ELSE [num |-> 0, den |-> 1]]

RECURSIVE overview_from(_, _, _)
overview_from(cd, n, overview_stats) ==
    IF n > Len(cd.keys) THEN [raised |-> "None", overview_stats |-> overview_stats]
    ELSE LET entry == country_overview(cd.at[cd.keys[n]])
         IN IF entry.raised # "None"
            THEN [raised |-> entry.raised, overview_stats |-> EmptyDict]
            ELSE overview_from(cd, n + 1, Put(overview_stats, cd.keys[n], entry))

create_country_overview_metrics(cd) == overview_from(cd, 1, EmptyDict)

\* the overview of the loaded tables is computed
overview_metrics ==
    /\ pc = "overview"
    /\ out' = create_country_overview_metrics(country_data)
    /\ pc' = "overview_done"
    /\ UNCHANGED <<fs, i, country_data, missing_files, uploaded_files, j,
                   uploaded_data, ui, session_state, search_term, occupation_title>>

\* the cells of the one column of a table that is not all 0
OverviewCells == {Zero, Num(HighThreshold), Num(HighThreshold + 1), NaN, Str(<<"a">>)}

\* a row of the given width: the two identifier cells, then 0 everywhere but
\* cell in column at (from 1); cut to the width when the table is narrower than
\* the identifier columns
WideRow(width, at, cell) ==
    [n \in 1..width |-> IF n = 1 THEN Str(<<"B">>)
                        ELSE IF n = 2 THEN Str(<<"a">>)
                        ELSE IF n = at THEN cell ELSE Zero]

\* the tables of a given width with up to MaxRows rows that differ in one column
WideTables(width) ==
    {DataFrame(width, [r \in 1..Len(cells) |-> WideRow(width, at, cells[r])]) :
        at \in (IdColumns + 1)..(IF width > IdColumns THEN width ELSE IdColumns + 1),
        cells \in SeqsUpTo(OverviewCells, MaxRows)}

InitOverview ==
    /\ pc = "overview"
    /\ fs = [c \in CountryCodes |-> "ok"]
    /\ i = 1
    /\ \E width \in 0..(IdColumns + NumYears) :
         \E df \in WideTables(width) : country_data = Put(EmptyDict, "USA", df)
    /\ missing_files = <<>>
    /\ uploaded_files = <<>>
    /\ j = 1
    /\ uploaded_data = EmptyDict
    /\ ui = <<>>
    /\ session_state = NoSessionState
    /\ search_term = <<>>
    /\ occupation_title = <<>>
    /\ out = None

NextOverview == overview_metrics

SpecOverview == InitOverview /\ [][NextOverview]_vars

----------------------------------------------------------------------------
(* Properties of the loading phase *)

Range(seq) == {seq[n] : n \in 1..Len(seq)}

ConfiguredFiles == {COUNTRIES[c].file : c \in CountryCodes}

\* C1: when load_country_data returns, every configured country is either in
\* the returned table map (its file existed and was read) or has its filename
\* in the returned missing list (file absent, or the read raised), never both
\* and never neither, whatever happened to the countries before it.
C1_EveryCountryStoredOrMissing ==
    pc = "main" =>
        \A c \in CountryCodes :
            /\ (c \in Keys(country_data)) # (COUNTRIES[c].file \in Range(missing_files))
            /\ (c \in Keys(country_data)) <=> (fs[c] = "ok")
            /\ c \in Keys(country_data) => country_data.at[c] = DiskSheet

\* a country read after a corrupt and an absent file
C1_Witness ==
    /\ pc = "main"
    /\ fs["USA"] = "corrupt"
    /\ fs["Germany"] = "absent"
    /\ fs["China"] = "ok"
    /\ "China" \in Keys(country_data)
    /\ {COUNTRIES["USA"].file, COUNTRIES["Germany"].file} \subseteq Range(missing_files)

\* every key of the map load_uploaded_data returns is a configured country code
\* whose configured filename is exactly the name of a supplied file that parsed
C9_KeysOnlyFromExactNames ==
    (pc = "load_uploaded_data" /\ j > Len(uploaded_files)) =>
        \A c \in Keys(uploaded_data) :
            /\ c \in CountryCodes
            /\ \E n \in 1..Len(uploaded_files) :
                  /\ uploaded_files[n].name = COUNTRIES[c].file
                  /\ uploaded_files[n].readable
            /\ uploaded_data.at[c] = UploadSheet

\* a file whose name is no configured filename changes neither the map nor the
\* messages
C9_UnmatchedIgnored ==
    [][(pc = "load_uploaded_data" /\ j <= Len(uploaded_files)
          /\ uploaded_files[j].name \notin ConfiguredFiles)
        => (uploaded_data' = uploaded_data /\ ui' = ui)]_vars

\* C9: load_uploaded_data stores a table only under a configured country code
\* and only for a country whose configured filename is exactly the name of a
\* supplied file that parsed; a file whose name is no configured filename
\* changes neither the map nor the messages and reports no error.
C9_UploadAcceptedOnlyByExactName ==
    []C9_KeysOnlyFromExactNames /\ C9_UnmatchedIgnored

\* a name differing in case only was skipped and an exact name was stored
C9_Witness ==
    /\ pc = "load_uploaded_data"
    /\ j > Len(uploaded_files)
    /\ Len(uploaded_files) = 2
    /\ uploaded_files[1] = [name |-> "usa_corrected.xlsx", readable |-> TRUE]
    /\ uploaded_files[2] = [name |-> "Mali_corrected.xlsx", readable |-> TRUE]
    /\ Keys(uploaded_data) = {"Mali"}
    /\ "error_loading" \notin Range(ui)

RenderingPcs == {"session_state", "sidebar"}

\* C10: a run in which no table was loaded, from disk or from the uploads,
\* never reaches the rendering (session state, sidebar, tabs): it is stopped,
\* and the last thing it did was to tell the user to supply data.
C10_NoRenderingWithoutData ==
    /\ pc \in RenderingPcs => country_data.keys # <<>>
    /\ session_state # NoSessionState => country_data.keys # <<>>
    /\ pc = "stopped" =>
          /\ session_state = NoSessionState
          /\ ui # <<>>
          /\ ui[Len(ui)] \in {"info_please_upload", "error_could_not_load"}
    /\ (country_data.keys = <<>>
          /\ pc \notin {"load_country_data", "main", "file_uploader", "load_uploaded_data"})
        => pc = "stopped"

\* files were uploaded and still nothing was loaded
C10_Witness ==
    /\ pc = "stopped"
    /\ uploaded_files # <<>>
    /\ country_data.keys = <<>>
    /\ ui[Len(ui)] = "error_could_not_load"

----------------------------------------------------------------------------
(* Properties of the statistics extraction and the risk labels *)

TabPcs == {"tab1", "tab2", "tab3"}

\* the probability cells of the one row of the table under study
TheProbs == probs_of(country_data.at["USA"].rows[1])

\* the cell at offset idx (from 0) of the probabilities, 0 beyond their end
CellOrZero(idx) == IF Len(TheProbs) > idx THEN TheProbs[idx + 1] ELSE Zero

NeverIndexError(values) == \A n \in 1..Len(values) : values[n] # IndexError

\* C2: for a row with L probabilities, 0 <= L <= 91, the extraction gives
\* current_2024 = probs[7] if L > 7 else 0, outlook_2030 = probs[13] if L > 13
\* else 0, midterm_2050 = probs[33] if L > 33 else 0, final = probs[L-1] if
\* L > 0 else 0, in calculate_country_occupation_stats and in the comparison
\* table of tab2, and no index beyond the end is taken.
C2_PointValuesAtFixedOffsets ==
    /\ pc = "tab1" =>
          /\ Keys(out.stats) = {"USA"}
          /\ LET st == out.stats.at["USA"]
             IN /\ st.current_2024 = CellOrZero(7)
                /\ st.outlook_2030 = CellOrZero(13)
                /\ st.midterm_2050 = CellOrZero(33)
                /\ st.final_2107 =
                      (IF Len(TheProbs) > 0 THEN TheProbs[Len(TheProbs)] ELSE Zero)
                /\ st.probabilities = TheProbs
                /\ NeverIndexError(<<st.current_2024, st.outlook_2030,
                                     st.midterm_2050, st.final_2107>>)
    /\ pc = "tab2" =>
          /\ Len(out.table) = 1
          /\ LET r == out.table[1]
             IN /\ r.current_2024 = CellOrZero(7)
                /\ r.outlook_2030 = CellOrZero(13)
                /\ r.midterm_2050 = CellOrZero(33)
                /\ NeverIndexError(<<r.current_2024, r.outlook_2030, r.midterm_2050>>)

\* a row of all 91 years whose 2050 cell is the one that is not 0
C2_Witness ==
    /\ pc = "tab1"
    /\ Len(TheProbs) = NumYears
    /\ TheProbs[34] = Num(501)
    /\ out.stats.at["USA"].midterm_2050 = Num(501)
    /\ out.stats.at["USA"].current_2024 = Zero

\* the tier a label names
Tier(label) ==
    CASE label \in {"High", "High Risk"} -> "High"
      [] label \in {"Medium", "Medium Risk"} -> "Medium"
      [] label \in {"Low", "Low Risk"} -> "Low"
      [] OTHER -> label

\* C3: the tier of a probability current is High when current > 0.5, Medium
\* when 0.2 < current <= 0.5 and Low when current <= 0.2, one tier for every
\* value, and the risk table of tab1, the comparison table of tab2 and the
\* cards of tab3 each give the 2024 value of the row that tier.
C3_OneTierAtAllThreeSites ==
    (pc \in TabPcs /\ CellOrZero(7).k = "num") =>
        LET current == CellOrZero(7).n
        IN \A n \in 1..Len(out.table) :
              LET tier == Tier(out.table[n].RiskLevel)
              IN /\ tier \in {"High", "Medium", "Low"}
                 /\ (tier = "High") <=> (current > 500)
                 /\ (tier = "Medium") <=> (200 < current /\ current <= 500)
                 /\ (tier = "Low") <=> (current <= 200)

\* exactly 0.5 in 2024 is Medium in the risk table of tab1
C3_Witness ==
    /\ pc = "tab1"
    /\ Len(TheProbs) > 7
    /\ TheProbs[8] = Num(500)
    /\ Len(out.table) = 1
    /\ out.table[1].RiskLevel = "Medium"

\* the point values a tab extracted
Extracted ==
    CASE pc = "tab1" ->
            IF "USA" \in Keys(out.stats)
            THEN <<out.stats.at["USA"].current_2024, out.stats.at["USA"].outlook_2030,
                   out.stats.at["USA"].midterm_2050, out.stats.at["USA"].final_2107>>
            ELSE <<>>
      [] pc = "tab2" ->
            <<out.table[1].current_2024, out.table[1].outlook_2030,
              out.table[1].midterm_2050>>
      [] pc = "tab3" -> <<out.table[1].current_2024, out.table[1].prob_2050>>
      [] OTHER -> <<>>

\* C4: cells that are not numbers are coerced to 0 before the point values are
\* taken, so every extracted value is a number, and formatting and classifying
\* it never raise.
C4_MalformedCellsCoercedToZero ==
    pc \in TabPcs =>
        /\ out.raised = "None"
        /\ \A n \in 1..Len(Extracted) : Extracted[n].k = "num"

----------------------------------------------------------------------------
(* Properties of the country overview *)

TheTable == country_data.at["USA"]

IsZeroMean(m) == m.k = "num" /\ m.sum = 0

\* C5: the overview of a table without rows, whatever its number of columns,
\* has total_occupations = 0, avg_automation_2024 = 0,
\* high_risk_occupations_2050 = 0 and high_risk_percentage = 0, and nothing
\* raises.
C5_EmptyTableOverviewIsZero ==
    (pc = "overview_done" /\ TheTable.rows = <<>>) =>
        /\ out.raised = "None"
        /\ "USA" \in Keys(out.overview_stats)
        /\ LET o == out.overview_stats.at["USA"]
           IN /\ o.total_occupations = 0
              /\ IsZeroMean(o.avg_automation_2024)
              /\ o.high_risk_occupations_2050 = 0
              /\ o.high_risk_percentage.num = 0

\* C6: create_country_overview_metrics never raises: whatever the number of
\* columns and whatever the cells hold, it returns an entry for every country.
C6_OverviewNeverRaises ==
    pc = "overview_done" =>
        /\ out.raised = "None"
        /\ Keys(out.overview_stats) = Keys(country_data)

\* C7: for every table the overview has total_occupations = number of rows,
\* high_risk_occupations_2050 = number of rows whose cell at offset 35 is > 0.5
\* (0 when there are at most 35 columns), high_risk_percentage = that count /
\* total_occupations * 100 (0 for no rows); so the count is between 0 and the
\* number of rows and the percentage between 0 and 100.
C7_OverviewCountsAndPercentage ==
    pc = "overview_done" =>
        /\ "USA" \in Keys(out.overview_stats)
        /\ LET o == out.overview_stats.at["USA"]
               above == {r \in 1..Len(TheTable.rows) :
                            /\ TheTable.columns > 35
                            /\ TheTable.rows[r][36].k = "num"
                            /\ TheTable.rows[r][36].n > 500}
           IN /\ o.total_occupations = Len(TheTable.rows)
              /\ o.high_risk_occupations_2050 = Cardinality(above)
              /\ o.high_risk_percentage.num * o.total_occupations
                    = o.high_risk_occupations_2050 * 100 * o.high_risk_percentage.den
              /\ o.high_risk_percentage.den > 0
              /\ (o.total_occupations = 0 => o.high_risk_percentage.num = 0)
              /\ 0 <= o.high_risk_occupations_2050
              /\ o.high_risk_occupations_2050 <= o.total_occupations
              /\ 0 <= o.high_risk_percentage.num
              /\ o.high_risk_percentage.num <= 100 * o.high_risk_percentage.den

----------------------------------------------------------------------------
(* export_data *)

\* the characters of the texts in an exported table: a letter and the three
\* characters the CSV format gives a meaning to
CsvChars == {"a", ",", "\"", "\n"}

Digit(d) ==
    CASE d = 0 -> "0" [] d = 1 -> "1" [] d = 2 -> "2" [] d = 3 -> "3"
      [] d = 4 -> "4" [] d = 5 -> "5" [] d = 6 -> "6" [] d = 7 -> "7"
      [] d = 8 -> "8" [] d = 9 -> "9"

\* the decimals of a number of thousandths, without trailing zeros, at least one
Decimals(frac) ==
    IF frac % 100 = 0 THEN <<Digit(frac \div 100)>>
    ELSE IF frac % 10 = 0 THEN <<Digit(frac \div 100), Digit((frac \div 10) % 10)>>
    ELSE <<Digit(frac \div 100), Digit((frac \div 10) % 10), Digit(frac % 10)>>

\* repr of a float between 0.0 and 9.999, as to_csv writes it
float_repr(n) == <<Digit(n \div 1000), ".">> \o Decimals(n % 1000)

\* the text to_csv writes for a cell: na_rep is '' for a missing value
csv_text(cell) ==
    CASE cell.k = "str" -> cell.s
      [] cell.k = "nan" -> <<>>
      [] OTHER -> float_repr(cell.n)

\* the label of the column at position col (from 1)
column_label(col) == <<"h", Digit(col)>>

RECURSIVE double_quotes(_)
double_quotes(text) ==
    IF text = <<>> THEN <<>>
    ELSE (IF Head(text) = "\"" THEN <<"\"", "\"">> ELSE <<Head(text)>>)
            \o double_quotes(Tail(text))

\* csv.writer with QUOTE_MINIMAL: a field is quoted when it holds the
\* delimiter, the quote character or a line break, and so is the empty field
\* of a one-field record
csv_field(text, alone) ==
    IF (\E n \in 1..Len(text) : text[n] \in {",", "\"", "\n"}) \/ (alone /\ text = <<>>)
    THEN <<"\"">> \o double_quotes(text) \o <<"\"">>
    ELSE text

RECURSIVE csv_join(_, _)
csv_join(fields, n) ==
    IF n > Len(fields) THEN <<"\n">>
    ELSE (IF n > 1 THEN <<",">> ELSE <<>>)
            \o csv_field(fields[n], Len(fields) = 1) \o csv_join(fields, n + 1)

\* one record of the file, with its line terminator
csv_line(fields) == csv_join(fields, 1)

\* str(k) of a row number below 10
index_text(r) == <<Digit(r)>>

RECURSIVE csv_lines(_, _, _)
csv_lines(df, index, r) ==
    IF r > Len(df.rows) THEN <<>>
    ELSE csv_line((IF index THEN <<index_text(r - 1)>> ELSE <<>>)
                    \o [c \in 1..df.columns |-> csv_text(df.rows[r][c])])
            \o csv_lines(df, index, r + 1)

\* DataFrame.to_csv(index=...): the header, then one record for each row
to_csv(df, index) ==
    csv_line((IF index THEN << <<>> >> ELSE <<>>)
                \o [c \in 1..df.columns |-> column_label(c)])
        \o csv_lines(df, index, 1)

\* the code point of a character, which is its one byte in UTF-8
Ord(ch) ==
    CASE ch = "\n" -> 10 [] ch = "\"" -> 34 [] ch = "," -> 44 [] ch = "." -> 46
      [] ch = "0" -> 48 [] ch = "1" -> 49 [] ch = "2" -> 50 [] ch = "3" -> 51
      [] ch = "4" -> 52 [] ch = "5" -> 53 [] ch = "6" -> 54 [] ch = "7" -> 55
      [] ch = "8" -> 56 [] ch = "9" -> 57 [] ch = "B" -> 66 [] ch = "a" -> 97
      [] ch = "h" -> 104

\* str.encode('utf-8')
encode_utf8(text) == [n \in 1..Len(text) |-> Ord(text[n])]

\* export_data called with index=True in to_csv
export_data_with_index(data, filename, file_format) ==
    IF file_format \in {"csv", "CSV", "Csv"}
    THEN [data |-> encode_utf8(to_csv(data, TRUE)),
          file_name |-> <<filename, ".csv">>, mime |-> "text/csv"]
    ELSE [data |-> [sheet_name |-> "Data", table |-> data, index |-> FALSE],
          file_name |-> <<filename, ".xlsx">>,
          mime |-> "application/vnd.openxmlformats-officedocument.spreadsheetml.sheet"]

\* export_data: the bytes, the file name (base name and extension) and the mime
\* type; the workbook of the Excel branch is kept as the sheet it holds
export_data(data, filename, file_format) ==
    IF file_format \in {"csv", "CSV", "Csv"}
    THEN [data |-> encode_utf8(to_csv(data, FALSE)),
          file_name |-> <<filename, ".csv">>, mime |-> "text/csv"]
    ELSE [data |-> [sheet_name |-> "Data", table |-> data, index |-> FALSE],
          file_name |-> <<filename, ".xlsx">>,
          mime |-> "application/vnd.openxmlformats-officedocument.spreadsheetml.sheet"]

\* sidebar: the CSV download of a country
sidebar_export_csv ==
    /\ pc = "sidebar"
    /\ out' = export_data(country_data.at["USA"], "United States_automation", "csv")
    /\ pc' = "csv_exported"
    /\ UNCHANGED <<fs, i, country_data, missing_files, uploaded_files, j,
                   uploaded_data, ui, session_state, search_term, occupation_title>>

\* sidebar: the Excel download of a country
sidebar_export_excel ==
    /\ pc = "sidebar"
    /\ out' = export_data(country_data.at["USA"], "United States_automation", "excel")
    /\ pc' = "excel_exported"
    /\ UNCHANGED <<fs, i, country_data, missing_files, uploaded_files, j,
                   uploaded_data, ui, session_state, search_term, occupation_title>>

\* the cells of an exported table
CsvCells ==
    {Str(text) : text \in Strings(CsvChars, 0, MaxStrLen)}
        \cup {NaN, Zero, Num(MediumThreshold), Num(HighThreshold + 1), Num(1000)}

\* the cell every other cell of a table holds
CsvFill == {NaN, Zero, Str(<<"a">>)}

\* the tables of the given shape whose cells are all fill but one
CsvTables(columns, nrows) ==
    {DataFrame(columns,
        [r \in 1..nrows |-> [c \in 1..columns |->
            IF r = at[1] /\ c = at[2] THEN cell ELSE fill]]) :
        at \in (1..nrows) \X (1..columns), cell \in CsvCells, fill \in CsvFill}
    \cup {DataFrame(columns, [r \in 1..nrows |-> [c \in 1..columns |-> fill]]) :
            fill \in CsvFill}

InitExport ==
    /\ pc = "sidebar"
    /\ fs = [c \in CountryCodes |-> "ok"]
    /\ i = 1
    /\ \E columns \in 0..(MaxRows + 1), nrows \in 0..MaxRows :
         \E df \in CsvTables(columns, nrows) :
            /\ (columns = 0 => nrows = 0)
            /\ country_data = Put(EmptyDict, "USA", df)
    /\ missing_files = <<>>
    /\ uploaded_files = <<>>
    /\ j = 1
    /\ uploaded_data = EmptyDict
    /\ ui = <<>>
    /\ session_state = [key \in {"selected_occupations", "selected_countries"} |->
                          IF key = "selected_countries" THEN <<"USA">> ELSE <<>>]
    /\ search_term = <<>>
    /\ occupation_title = <<>>
    /\ out = None

NextExport ==
    \/ sidebar_export_csv
    \/ sidebar_export_excel

SpecExport == InitExport /\ [][NextExport]_vars

----------------------------------------------------------------------------
(* Properties of the export *)

\* bytes.decode('utf-8') of the bytes of the characters above
Chr(byte) ==
    CASE byte = 10 -> "\n" [] byte = 34 -> "\"" [] byte = 44 -> "," [] byte = 46 -> "."
      [] byte = 48 -> "0" [] byte = 49 -> "1" [] byte = 50 -> "2" [] byte = 51 -> "3"
      [] byte = 52 -> "4" [] byte = 53 -> "5" [] byte = 54 -> "6" [] byte = 55 -> "7"
      [] byte = 56 -> "8" [] byte = 57 -> "9" [] byte = 97 -> "a" [] byte = 104 -> "h"

decode_utf8(bytes) == [n \in 1..Len(bytes) |-> Chr(bytes[n])]

\* a CSV reader (RFC 4180, as csv.reader reads): the records of a text, each
\* the sequence of its fields.  record and field are the ones being read,
\* quoted says the reader is inside a quoted field, begun that the current
\* line holds something.
RECURSIVE read_csv(_, _, _, _, _, _, _)
read_csv(text, n, records, record, field, quoted, begun) ==
    IF n > Len(text)
    THEN IF begun THEN Append(records, Append(record, field)) ELSE records
    ELSE LET ch == text[n]
         IN IF quoted
            THEN IF ch = "\""
                 THEN IF n < Len(text) /\ text[n + 1] = "\""
                      THEN read_csv(text, n + 2, records, record,
                                    Append(field, "\""), TRUE, TRUE)
                      ELSE read_csv(text, n + 1, records, record, field, FALSE, TRUE)
                 ELSE read_csv(text, n + 1, records, record, Append(field, ch), TRUE, TRUE)
            ELSE IF ch = "\""
                 THEN read_csv(text, n + 1, records, record, field, TRUE, TRUE)
                 ELSE IF ch = ","
                 THEN read_csv(text, n + 1, records, Append(record, field), <<>>,
                               FALSE, TRUE)
                 ELSE IF ch = "\n"
                 THEN read_csv(text, n + 1,
                               Append(records, IF begun THEN Append(record, field) ELSE <<>>),
                               <<>>, <<>>, FALSE, FALSE)
                 ELSE read_csv(text, n + 1, records, record, Append(field, ch),
                               FALSE, TRUE)

parse_csv(bytes) == read_csv(decode_utf8(bytes), 1, <<>>, <<>>, <<>>, FALSE, FALSE)

ExportedTable == country_data.at["USA"]

\* C11: the bytes of export_data(table, name, "csv"), read back as CSV, hold
\* the header and then one record for each row of the table, in order, each
\* with one field for each column (no index column) holding the text of that
\* cell; the file name is name + ".csv" and the mime type is text/csv.
C11_CsvExportRoundTrips ==
    pc = "csv_exported" =>
        LET parsed == parse_csv(out.data)
        IN /\ Len(parsed) = 1 + Len(ExportedTable.rows)
           /\ parsed[1] = [c \in 1..ExportedTable.columns |-> column_label(c)]
           /\ \A r \in 1..Len(ExportedTable.rows) :
                 parsed[r + 1] = [c \in 1..ExportedTable.columns |->
                                     csv_text(ExportedTable.rows[r][c])]
           /\ out.file_name = <<"United States_automation", ".csv">>
           /\ out.mime = "text/csv"

\* a table of two rows whose second row holds a text with a comma and a quote
C11_Witness ==
    /\ pc = "csv_exported"
    /\ Len(ExportedTable.rows) = 2
    /\ ExportedTable.columns = 2
    /\ ExportedTable.rows[2][1] = Str(<<",", "\"">>)
    /\ ExportedTable.rows[1][1] = NaN
    /\ parse_csv(out.data)[3][1] = <<",", "\"">>

----------------------------------------------------------------------------
(* The extraction and the overview on the same table *)

\* the statistics of every row of a table, as the extraction computes them
\* for the row of an occupation
row_stats(df) == [r \in 1..Len(df.rows) |-> occupation_stats(probs_of(df.rows[r]))]

\* the rows of the table are extracted
offsets_extract ==
    /\ pc = "offsets"
    /\ out' = [stats |-> row_stats(country_data.at["USA"])]
    /\ pc' = "offsets_extracted"
    /\ UNCHANGED <<fs, i, country_data, missing_files, uploaded_files, j,
                   uploaded_data, ui, session_state, search_term, occupation_title>>

\* then the overview of the same table is computed
offsets_overview ==
    /\ pc = "offsets_extracted"
    /\ out' = [stats |-> out.stats,
               overview |-> create_country_overview_metrics(country_data)]
    /\ pc' = "offsets_compared"
    /\ UNCHANGED <<fs, i, country_data, missing_files, uploaded_files, j,
                   uploaded_data, ui, session_state, search_term, occupation_title>>

\* the columns (from 1) around the two cells the overview reads
OffsetColumns ==
    ((Col2024 - 1)..(Col2024 + 3)) \cup ((Col2050 - 1)..(Col2050 + 3))

\* tables of the given width with up to MaxRows rows that differ in one of
\* the OffsetColumns
OffsetTables(width) ==
    {DataFrame(width, [r \in 1..Len(cells) |-> WideRow(width, at, cells[r])]) :
        at \in OffsetColumns, cells \in SeqsUpTo(OverviewCells, MaxRows)}

InitOffsets ==
    /\ pc = "offsets"
    /\ fs = [c \in CountryCodes |-> "ok"]
    /\ i = 1
    /\ \E width \in (Col2050 - 2)..(IdColumns + NumYears) :
         \E df \in OffsetTables(width) : country_data = Put(EmptyDict, "USA", df)
    /\ missing_files = <<>>
    /\ uploaded_files = <<>>
    /\ j = 1
    /\ uploaded_data = EmptyDict
    /\ ui = <<>>
    /\ session_state = NoSessionState
    /\ search_term = <<>>
    /\ occupation_title = <<>>
    /\ out = None

NextOffsets ==
    \/ offsets_extract
    \/ offsets_overview

SpecOffsets == InitOffsets /\ [][NextOffsets]_vars

\* C12: in a table with more than 35 columns, for every row, the cell the
\* overview reads at offset 9 of the full row is the cell the extraction
\* returns as current_2024 (probs[7]), and the cell it tests at offset 35 is
\* the one returned as midterm_2050 (probs[33]); the overview's high-risk
\* count is the number of rows whose extracted midterm_2050 is > 0.5, and its
\* test of a cell ends as the test of the extracted value does.
C12_OffsetBasesAddressSameCells ==
    (pc = "offsets_compared" /\ TheTable.columns > 35) =>
        LET avg_cells == column(TheTable, Col2024)
            risk_cells == column(TheTable, Col2050)
            high(r) == out.stats[r].midterm_2050.k = "num"
                          /\ out.stats[r].midterm_2050.n > 500
        IN /\ Len(out.stats) = Len(TheTable.rows)
           /\ \A r \in 1..Len(TheTable.rows) :
                 /\ avg_cells[r] = out.stats[r].current_2024
                 /\ avg_cells[r] = TheTable.rows[r][10]
                 /\ risk_cells[r] = out.stats[r].midterm_2050
                 /\ risk_cells[r] = TheTable.rows[r][36]
                 /\ greater(risk_cells[r], HighThreshold)
                       = greater(out.stats[r].midterm_2050, HighThreshold)
           /\ out.overview.raised = "None" =>
                 out.overview.overview_stats.at["USA"].high_risk_occupations_2050
                    = Cardinality({r \in 1..Len(TheTable.rows) : high(r)})

\* two rows, one above 0.5 in 2050 and one at 0.5, counted as one high-risk row
C12_Witness ==
    /\ pc = "offsets_compared"
    /\ TheTable.columns = IdColumns + NumYears
    /\ Len(TheTable.rows) = 2
    /\ out.stats[1].midterm_2050 = Num(501)
    /\ out.stats[2].midterm_2050 = Num(500)
    /\ out.overview.raised = "None"
    /\ out.overview.overview_stats.at["USA"].high_risk_occupations_2050 = 1

----------------------------------------------------------------------------
(* calculate_country_occupation_stats on the tables of several countries *)

\* the statistics of an occupation are computed over the loaded tables
find_stats ==
    /\ pc = "find"
    /\ out' = calculate_country_occupation_stats(occupation_title, country_data)
    /\ pc' = "found"
    /\ UNCHANGED <<fs, i, country_data, missing_files, uploaded_files, j,
                   uploaded_data, ui, session_state, search_term, occupation_title>>

\* titles that are equal, equal up to case, part of one another, or missing
TitleCells ==
    {Str(<<"a", "B">>), Str(<<"a", "b">>), Str(<<"a">>), Str(<<"a", "B", "a">>), NaN}

\* rows whose probabilities run to 2024 and are 0 before it
TitledRows ==
    {<<Str(<<"B">>), title>> \o [n \in 1..(Idx2024 + 1) |->
                                    IF n = Idx2024 + 1 THEN cell ELSE Zero] :
        title \in TitleCells, cell \in {Zero, Num(HighThreshold + 1)}}

TitledTables(nrows) ==
    {DataFrame(IdColumns + Idx2024 + 1, rows) : rows \in SeqsUpTo(TitledRows, nrows)}

InitFind ==
    /\ pc = "find"
    /\ fs = [c \in CountryCodes |-> "ok"]
    /\ i = 1
    /\ \E usa \in TitledTables(MaxRows), germany \in TitledTables(1) :
          country_data = Put(Put(EmptyDict, "USA", usa), "Germany", germany)
    /\ missing_files = <<>>
    /\ uploaded_files = <<>>
    /\ j = 1
    /\ uploaded_data = EmptyDict
    /\ ui = <<>>
    /\ session_state = NoSessionState
    /\ search_term = <<>>
    /\ occupation_title \in {<<"a", "B">>, <<"a">>}
    /\ out = None

NextFind == find_stats

SpecFind == InitFind /\ [][NextFind]_vars

\* the positions of the rows of a table whose title cell is exactly the text
ExactRows(df, title) ==
    {r \in 1..Len(df.rows) : df.rows[r][2].k = "str" /\ df.rows[r][2].s = title}

FirstOf(S) == CHOOSE r \in S : \A q \in S : r <= q

\* C13: calculate_country_occupation_stats has an entry for a country exactly
\* when the table of that country has a row whose title cell is equal to the
\* requested title (not merely equal up to case, and not a title containing
\* it); the entry is computed from the first such row, and two countries whose
\* first such rows hold the same probabilities get the same entry.
C13_EntryIffExactTitleFirstRow ==
    pc = "found" =>
        /\ Keys(out) \subseteq Keys(country_data)
        /\ \A c \in Keys(country_data) :
              LET df == country_data.at[c]
                  exact == ExactRows(df, occupation_title)
              IN /\ (c \in Keys(out)) <=> (exact # {})
                 /\ exact # {} =>
                       LET row == df.rows[FirstOf(exact)]
                       IN /\ out.at[c].probabilities = SubSeq(row, 3, Len(row))
                          /\ out.at[c].current_2024 = row[10]
                          /\ out.at[c].final_2107 = row[Len(row)]
        /\ \A c, d \in Keys(out) :
              out.at[c].probabilities = out.at[d].probabilities
                 => out.at[c] = out.at[d]

\* the first of two rows of the same title decides; a title that differs in
\* case gives no entry
C13_Witness ==
    /\ pc = "found"
    /\ occupation_title = <<"a", "B">>
    /\ Len(country_data.at["USA"].rows) = 2
    /\ country_data.at["USA"].rows[1][2] = Str(<<"a", "B">>)
    /\ country_data.at["USA"].rows[2][2] = Str(<<"a", "B">>)
    /\ country_data.at["USA"].rows[1][10] = Num(501)
    /\ country_data.at["USA"].rows[2][10] = Zero
    /\ country_data.at["Germany"].rows = << <<Str(<<"B">>), Str(<<"a", "b">>)>>
                                            \o [n \in 1..8 |-> Zero] >>
    /\ Keys(out) = {"USA"}
    /\ out.at["USA"].current_2024 = Num(501)

----------------------------------------------------------------------------
(* tab1: the occupations offered for the cross-country comparison *)

\* common_occupations[:50]
MaxShown == 50

\* text < other in the order of Python strings
RECURSIVE text_less(_, _)
text_less(text, other) ==
    IF other = <<>> THEN FALSE
    ELSE IF text = <<>> THEN TRUE
    ELSE IF Head(text) # Head(other) THEN Ord(Head(text)) < Ord(Head(other))
    ELSE text_less(Tail(text), Tail(other))

\* sorted(list(texts))
RECURSIVE sorted(_)
sorted(texts) ==
    IF texts = {} THEN <<>>
    ELSE LET least == CHOOSE t \in texts : \A u \in texts \ {t} : text_less(t, u)
         IN <<least>> \o sorted(texts \ {least})

\* set(country_data[country_code].iloc[:, 1].tolist()), the titles as texts
titles_of(df) == {df.rows[r][2].s : r \in 1..Len(df.rows)}

\* the loop over the selected countries: the titles common to their tables;
\* common is <<>> for None, before the first loaded country, then <<titles>>
RECURSIVE common_from(_, _, _, _)
common_from(selected, cd, n, common) ==
    IF n > Len(selected) THEN common
    ELSE IF selected[n] \in Keys(cd)
    THEN LET country_occs == titles_of(cd.at[selected[n]])
         IN common_from(selected, cd, n + 1,
                IF common = <<>> THEN <<country_occs>>
                ELSE <<common[1] \cap country_occs>>)
    ELSE common_from(selected, cd, n + 1, common)

\* the options of the occupation selectbox: the titles the search term selects,
\* or the first 50 when there is no term
filtered_occs(common_occupations, term) ==
    IF term # <<>>
    THEN SelectSeq(common_occupations,
                   LAMBDA occ : contains_literal(Lower(occ), Lower(term)))
    ELSE SubSeq(common_occupations, 1, Min(MaxShown, Len(common_occupations)))

\* tab1: the common occupations of the selected countries, filtered by the
\* search term
tab1_search ==
    /\ pc = "tab1_search"
    /\ session_state["selected_countries"] # <<>>
    /\ LET common == common_from(session_state["selected_countries"], country_data,
                                 1, <<>>)
       IN out' = IF common = <<>> \/ common = <<{}>>
                 THEN [warning |-> "no_common_occupations", options |-> <<>>]
                 ELSE [warning |-> "None",
                       options |-> filtered_occs(sorted(common[1]), search_term)]
    /\ pc' = "tab1_searched"
    /\ UNCHANGED <<fs, i, country_data, missing_files, uploaded_files, j,
                   uploaded_data, ui, session_state, search_term, occupation_title>>

\* a second table, of one occupation
OtherSheet == DataFrame(2, << <<Str(<<"B">>), Str(<<"a">>)>> >>)

InitTab1Search ==
    /\ pc = "tab1_search"
    /\ fs = [c \in CountryCodes |-> "ok"]
    /\ i = 1
    /\ \E rows \in SeqsUpTo(IdRows, MaxRows) :
          country_data = Put(Put(EmptyDict, "USA", DataFrame(2, rows)),
                             "Germany", OtherSheet)
    /\ missing_files = <<>>
    /\ uploaded_files = <<>>
    /\ j = 1
    /\ uploaded_data = EmptyDict
    /\ ui = <<>>
    /\ \E selected \in {<<"USA">>, <<"USA", "Germany">>} :
          session_state = [key \in {"selected_occupations", "selected_countries"} |->
                              IF key = "selected_countries" THEN selected ELSE <<>>]
    /\ search_term \in Strings(TermChars, 0, MaxTermLen)
    /\ occupation_title = <<>>
    /\ out = None

NextTab1Search == tab1_search

SpecTab1Search == InitTab1Search /\ [][NextTab1Search]_vars

\* the titles every selected country has
CommonTitles ==
    {t \in titles_of(country_data.at["USA"]) :
        \A n \in 1..Len(session_state["selected_countries"]) :
            t \in titles_of(country_data.at[session_state["selected_countries"][n]])}

\* the SOC codes the selected countries give the occupation of a title
CodesOf(title) ==
    UNION {{row[1].s : row \in Range(rows_titled(country_data.at[c], title))} :
              c \in Range(session_state["selected_countries"])}

\* C14: with a search term, tab1 offers a common occupation exactly when the
\* term occurs, case ignored, in its title or in its SOC code.
C14_Tab1SearchByTitleOrCode ==
    (pc = "tab1_searched" /\ search_term # <<>>) =>
        \A t \in CommonTitles :
            (t \in Range(out.options)) <=>
                \/ contains_literal(Lower(t), Lower(search_term))
                \/ \E code \in CodesOf(t) :
                      contains_literal(Lower(code), Lower(search_term))

----------------------------------------------------------------------------
(* main: the loading step decides whether the script goes on *)

\* the script is past the loading step
Proceeded == pc \in RenderingPcs

\* st.stop() was called in the loading step
Halted == pc = "stopped"

\* the condition under which the script goes on
MayProceed ==
    \/ missing_files = <<>>
    \/ uploaded_files # <<>> /\ country_data.keys # <<>>

\* C15: main proceeds past the loading step if and only if no configured file
\* is missing, or at least one upload was supplied and the table map after
\* merging the uploads is non-empty; with a file missing and no upload it
\* halts whatever was loaded from disk; and after the merge a country has the
\* uploaded table if one was uploaded for it, its disk table otherwise.
C15_ProceedsIffLoadedOrUploaded ==
    /\ Proceeded => MayProceed
    /\ Halted => ~MayProceed
    /\ (pc \in RenderingPcs \cup {"stopped"} /\ missing_files # <<>>
          /\ uploaded_files = <<>>) => Halted
    /\ (Proceeded /\ uploaded_files # <<>>) =>
          /\ Keys(country_data) =
                {c \in CountryCodes : fs[c] = "ok"} \cup Keys(uploaded_data)
          /\ \A c \in Keys(country_data) :
                country_data.at[c] = IF c \in Keys(uploaded_data)
                                     THEN uploaded_data.at[c] ELSE DiskSheet
          /\ \A c \in Keys(uploaded_data) : uploaded_data.at[c] = UploadSheet

\* the script went on with a file missing: the USA workbook was on disk and
\* was uploaded too, and the table of the USA is the uploaded one
C15_Witness ==
    /\ pc = "sidebar"
    /\ missing_files # <<>>
    /\ fs["USA"] = "ok"
    /\ "USA" \in Keys(uploaded_data)
    /\ country_data.at["USA"] = UploadSheet
    /\ country_data.at["USA"] # DiskSheet

----------------------------------------------------------------------------
(* tab3: the Add and Remove buttons of the occupation cards *)

\* an occupation counts as selected when only the head of the list is looked at
is_selected_first(occ_title, selected) ==
    selected # <<>> /\ selected[1] = occ_title

\* occ_title in st.session_state.selected_occupations
is_selected(occ_title, selected) ==
    \E n \in 1..Len(selected) : selected[n] = occ_title

\* list.remove(x): the list without the first x; ValueError when there is none
RECURSIVE list_remove(_, _)
list_remove(list, x) ==
    IF list = <<>> THEN "ValueError"
    ELSE IF Head(list) = x THEN Tail(list)
    ELSE LET rest == list_remove(Tail(list), x)
         IN IF rest = "ValueError" THEN rest ELSE <<Head(list)>> \o rest

\* no button was clicked before the run
NoClick == [kind |-> "none", idx |-> 0]

\* the widget keys browse_add_{idx} and browse_remove_{idx}
Button(kind, idx) == [kind |-> kind, idx |-> idx]

\* the loop over the cards from card n on: the first card whose rendered
\* button is the clicked one changes the list and calls st.rerun(), which ends
\* the run; selected is the session list
RECURSIVE browse_cards(_, _, _, _)
browse_cards(rows, n, selected, clicked) ==
    IF n > Len(rows) THEN [selected_occupations |-> selected, rerun |-> FALSE]
    ELSE LET occ_title == rows[n][2].s
             idx == n - 1
         IN IF is_selected(occ_title, selected)
            THEN IF clicked = Button("remove", idx)
                 THEN [selected_occupations |-> list_remove(selected, occ_title),
                       rerun |-> TRUE]
                 ELSE browse_cards(rows, n + 1, selected, clicked)
            ELSE IF clicked = Button("add", idx)
                 THEN [selected_occupations |-> Append(selected, occ_title),
                       rerun |-> TRUE]
                 ELSE browse_cards(rows, n + 1, selected, clicked)

\* filtered_browse of a run of tab3
filtered_browse(cd, state) ==
    LET df == cd.at[state["browse_country"]]
    IN IF state["browse_filter"] # <<>>
       THEN search_occupations(df, state["browse_filter"])
       ELSE df

\* one run of tab3 in which the clicked button is True
browse_run(cd, state, clicked) ==
    browse_cards(filtered_browse(cd, state).rows, 1,
                 state["selected_occupations"], clicked)

\* a run of the script after a click on the button of a card
tab3_click(kind) ==
    /\ pc = "tab3_browse"
    /\ \E idx \in 0..(MaxRows - 1) :
          LET run == browse_run(country_data, session_state, Button(kind, idx))
          IN /\ run.rerun
             /\ session_state' =
                   [session_state EXCEPT !["selected_occupations"] =
                                              run.selected_occupations]
             /\ out' = [clicked |-> Button(kind, idx)]
    /\ UNCHANGED <<pc, fs, i, country_data, missing_files, uploaded_files, j,
                   uploaded_data, ui, search_term, occupation_title>>

tab3_add == tab3_click("add")

tab3_remove == tab3_click("remove")

\* the texts typed into the filter of the browse tab
BrowseFilters == Strings(TermChars, 0, 1)

\* a run of the script after the user changed the browsed country or the
\* filter: no button is True, the list stays as it is
tab3_input ==
    /\ pc = "tab3_browse"
    /\ \E country \in Keys(country_data), term \in BrowseFilters :
          LET state == [session_state EXCEPT !["browse_country"] = country,
                                             !["browse_filter"] = term]
              run == browse_run(country_data, state, NoClick)
          IN /\ state # session_state
             /\ session_state' =
                   [state EXCEPT !["selected_occupations"] = run.selected_occupations]
             /\ out' = [clicked |-> NoClick]
    /\ UNCHANGED <<pc, fs, i, country_data, missing_files, uploaded_files, j,
                   uploaded_data, ui, search_term, occupation_title>>

\* the rows of a browsed table: a code and a title of one character each
BrowseRows == {<<Str(<<code>>), Str(<<title>>)>> : code \in CellChars, title \in CellChars}

InitBrowse ==
    /\ pc = "tab3_browse"
    /\ fs = [c \in CountryCodes |-> "ok"]
    /\ i = 1
    /\ \E rows \in SeqsUpTo(BrowseRows, MaxRows) :
          country_data = Put(Put(EmptyDict, "USA", DataFrame(2, rows)),
                             "Germany", OtherSheet)
    /\ missing_files = <<>>
    /\ uploaded_files = <<>>
    /\ j = 1
    /\ uploaded_data = EmptyDict
    /\ ui = <<>>
    /\ session_state =
          [key \in {"selected_occupations", "selected_countries",
                    "browse_country", "browse_filter"} |->
              CASE key = "selected_occupations" -> <<>>
                [] key = "selected_countries" -> country_data.keys
                [] key = "browse_country" -> Head(country_data.keys)
                [] key = "browse_filter" -> <<>>]
    /\ search_term = <<>>
    /\ occupation_title = <<>>
    /\ out = None

NextBrowse ==
    \/ tab3_add
    \/ tab3_remove
    \/ tab3_input

SpecBrowse == InitBrowse /\ [][NextBrowse]_vars

\* the session list
Selected == session_state["selected_occupations"]

\* the list is a list and holds no title twice
NoDuplicates ==
    /\ Selected # "ValueError"
    /\ \A m, n \in 1..Len(Selected) : Selected[m] = Selected[n] => m = n

\* the titles of the cards of the run that is about to start
ShownTitles == titles_of(filtered_browse(country_data, session_state))

\* a run leaves the list alone, or appends one shown title that was not in it,
\* or takes out one shown title that was in it
OneActionPerRun ==
    \/ Selected' = Selected
    \/ \E t \in ShownTitles \ Range(Selected) : Selected' = Append(Selected, t)
    \/ \E t \in ShownTitles \cap Range(Selected) :
          /\ Range(Selected') = Range(Selected) \ {t}
          /\ Len(Selected') = Len(Selected) - 1

\* C16: under any sequence of Add and Remove clicks in the browse tab, each
\* followed by a rerun, selected_occupations never holds a title twice: a run
\* appends at most one title, one that was not in the list, or removes at most
\* one title, one that was in the list.
C16_SelectedOccupationsHasNoDuplicates ==
    [](NoDuplicates) /\ [][OneActionPerRun]_vars

\* a title that two cards share was added and then removed through the second
\* card: the list is empty again
C16_Witness ==
    /\ pc = "tab3_browse"
    /\ country_data.at["USA"].rows =
          << <<Str(<<"a">>), Str(<<"a">>)>>, <<Str(<<"B">>), Str(<<"a">>)>> >>
    /\ session_state["browse_country"] = "USA"
    /\ out = [clicked |-> Button("remove", 1)]
    /\ Selected = <<>>

====
